---- MODULE Spec2Model ----
(***************************************************************************)
(* Model of the FiveTwelve game logic (src/FiveTwelve/model.py): the Grid  *)
(* of optional Tile references, the tiles' slide/merge algorithm, the      *)
(* score and the events handed to notify_all; of the listeners of          *)
(* src/FiveTwelve/view.py (GridView, TileView) and of the driver loop of   *)
(* src/FiveTwelve/game_manager.py.                                         *)
(*                                                                         *)
(* Tile objects live in a heap (a sequence indexed by object identity);    *)
(* a grid cell holds a tile identity or None.  Every operation is one      *)
(* action; the helper operators thread a record                            *)
(*   [tiles, heap, sum, view, events, merges, slid, error]                 *)
(* through the calls exactly in the order the code performs them: events,  *)
(* merges and slid log what the operation did, error is the exception it   *)
(* raised ("none" when it returned).                                       *)
(***************************************************************************)
EXTENDS Integers, Sequences, FiniteSets, TLC

GRID_SIZE == 4

\* ---- bounds of the model ----
MaxOps == 3        \* operations performed on a new Grid (specification Spec)
MaxLoadOps == 1    \* operations performed after a load (specification SpecLoad)
MaxMainSteps == 4  \* steps of the driver loop (specification SpecMain)
MaxPlayOps == 2    \* operations performed in mid-game (specification SpecPlay)

None == 0
Idx == 0 .. (GRID_SIZE - 1)
Pos == Idx \X Idx

\* what a listener finds when it indexes a row that set_tiles has not yet
\* appended to Grid.tiles
NoCell == -1

VARIABLES tiles, heap, sum, view, pc, budget, last
vars == <<tiles, heap, sum, view, pc, budget, last>>

\* ---- EventKind ----
tile_created == "tile_created"
tile_updated == "tile_updated"
tile_removed == "tile_removed"

\* the content of Grid.tiles[row][col] as a listener reads it during delivery
cell_of(g, row, col) ==
    IF row \in DOMAIN g.tiles
    THEN IF col \in DOMAIN g.tiles[row] THEN g.tiles[row][col] ELSE NoCell
    ELSE NoCell

\* GameEvent(kind, tile): the tile reference, with the fields it carries at
\* emission time, the grid cell at its position at that time and the element
\* whose notify_all is called.
GameEvent(kind, g, t, src) ==
    [kind |-> kind, tile |-> t, row |-> g.heap[t].row, col |-> g.heap[t].col,
     value |-> g.heap[t].value, src |-> src,
     cell |-> cell_of(g, g.heap[t].row, g.heap[t].col)]

\* ---- the listeners of view.py ----
\* TileView.__init__: the depiction records the tile's row, col and value
TileView(g, t) ==
    [tile |-> t, row |-> g.heap[t].row, col |-> g.heap[t].col,
     value |-> g.heap[t].value, drawn |-> TRUE]

\* Tile.add_listener
add_listener(g, t, listener) == [g EXCEPT !.heap[t].listeners = Append(@, listener)]

\* GridView.notify: attach a new TileView to a created tile, anything else
\* raises "Unexpected event"
GridView_notify(g, ev) ==
    IF ev.kind = tile_created
    THEN LET g1 == [g EXCEPT !.view = Append(@, TileView(g, ev.tile))]
         IN  add_listener(g1, ev.tile, Len(g1.view))
    ELSE [g EXCEPT !.error = "Unexpected event"]

\* TileView.notify: follow an updated tile, undraw a removed one, anything
\* else raises "Unexpected event"
TileView_notify(g, v, ev) ==
    IF ev.kind = tile_updated
    THEN [g EXCEPT !.view[v].row = g.heap[ev.tile].row,
                   !.view[v].col = g.heap[ev.tile].col,
                   !.view[v].value = g.heap[ev.tile].value]
    ELSE IF ev.kind = tile_removed
    THEN [g EXCEPT !.view[v].drawn = FALSE]
    ELSE [g EXCEPT !.error = "Unexpected event"]

RECURSIVE notify_each(_, _, _)
notify_each(g, listeners, ev) ==
    IF listeners = <<>>
    THEN g
    ELSE notify_each(TileView_notify(g, Head(listeners), ev), Tail(listeners), ev)

\* GameElement.notify_all: the Grid's listener list holds the GridView that
\* main registers, a Tile's list the TileViews attached to it
notify_all(g, ev) ==
    LET g1 == [g EXCEPT !.events = Append(@, ev)]
    IN  IF ev.src = "grid"
        THEN GridView_notify(g1, ev)
        ELSE notify_each(g1, g1.heap[ev.tile].listeners, ev)

\* Tile(grid, row, col, value): a new object, its identity is the next heap slot
Tile(g, row, col, value) ==
    [g EXCEPT !.heap = Append(@, [row |-> row, col |-> col, value |-> value,
                                  listeners |-> <<>>])]

\* Grid.__init__
EmptyTiles == [row \in Idx |-> [col \in Idx |-> None]]

in_bounds(row, col) == 0 <= row /\ row < GRID_SIZE /\ 0 <= col /\ col < GRID_SIZE

\* as_list of a cell array and a heap: matrix of numbers, zero for None
as_list_of(ts, hp) ==
    [row \in DOMAIN ts |-> [col \in DOMAIN ts[row] |->
        IF ts[row][col] = None THEN 0 ELSE hp[ts[row][col]].value]]

as_list == as_list_of(tiles, heap)

score == sum

\* find_empty: the candidates random.choice draws from
candidates_of(ts) == {pos \in Pos : ts[pos[1]][pos[2]] = None}

\* a slip in find_empty: on a full grid any cell is offered
find_empty_or_any == IF candidates_of(tiles) = {} THEN Pos ELSE candidates_of(tiles)

find_empty == candidates_of(tiles)

\* ---- Tile.remove / Tile.merge / Tile.move / Tile.slide ----
\* a slip in remove: the removed tile announces nothing
remove_is_silent(g, t) == g

\* a slip in remove: the event is sent through the grid's listeners
remove_through_grid(g, t) == notify_all(g, GameEvent(tile_removed, g, t, "grid"))

remove(g, t) == notify_all(g, GameEvent(tile_removed, g, t, "tile"))

\* a slip in merge: the absorbed tile's value is not added
merge_keeps_value(g, t, other) ==
    LET g1 == [g EXCEPT !.merges = Append(@, [into |-> t, absorbed |-> other,
                                              value |-> g.heap[other].value])]
        g2 == remove(g1, other)
    IN  notify_all(g2, GameEvent(tile_updated, g2, t, "tile"))

\* a slip in merge: the merged tile is announced before the absorbed one is removed
merge_updates_first(g, t, other) ==
    LET g1 == [g EXCEPT !.heap[t].value = g.heap[t].value + g.heap[other].value,
                        !.merges = Append(@, [into |-> t, absorbed |-> other,
                                              value |-> g.heap[other].value])]
        g2 == notify_all(g1, GameEvent(tile_updated, g1, t, "tile"))
    IN  remove(g2, other)

merge(g, t, other) ==
    LET g1 == [g EXCEPT !.heap[t].value = g.heap[t].value + g.heap[other].value,
                        !.merges = Append(@, [into |-> t, absorbed |-> other,
                                              value |-> g.heap[other].value])]
        g2 == remove(g1, other)
    IN  notify_all(g2, GameEvent(tile_updated, g2, t, "tile"))

\* a slip in move: the cell the tile leaves is not cleared
move_keeps_old_cell(g, t, row, col) ==
    LET g2 == [g EXCEPT !.heap[t].row = row, !.heap[t].col = col]
        g3 == [g2 EXCEPT !.tiles[row][col] = t]
    IN  notify_all(g3, GameEvent(tile_updated, g3, t, "tile"))

move(g, t, row, col) ==
    LET g1 == [g EXCEPT !.tiles[g.heap[t].row][g.heap[t].col] = None]
        g2 == [g1 EXCEPT !.heap[t].row = row, !.heap[t].col = col]
        g3 == [g2 EXCEPT !.tiles[row][col] = t]
    IN  notify_all(g3, GameEvent(tile_updated, g3, t, "tile"))

\* a slip in slide: the score grows by the value the tile had before the merge
RECURSIVE slide_loop_scores_old_value(_, _, _, _, _)
slide_loop_scores_old_value(g, t, row, col, movement_vector) ==
    LET dx == movement_vector[1]
        dy == movement_vector[2]
        trial_x == row + dy
        trial_y == col + dx
    IN  IF ~in_bounds(trial_x, trial_y)
        THEN g
        ELSE IF g.tiles[trial_x][trial_y] = None
        THEN slide_loop_scores_old_value(move(g, t, trial_x, trial_y), t,
                                         trial_x, trial_y, movement_vector)
        ELSE IF g.heap[g.tiles[trial_x][trial_y]].value = g.heap[t].value
        THEN LET g1 == merge(g, t, g.tiles[trial_x][trial_y])
                 g2 == move(g1, t, trial_x, trial_y)
                 g3 == [g2 EXCEPT !.sum = @ + g.heap[t].value]
             IN  slide_loop_scores_old_value(g3, t, trial_x, trial_y,
                                             movement_vector)
        ELSE g

\* a slip in slide: the neighbour's value is not compared before merging
RECURSIVE slide_loop_merges_any(_, _, _, _, _)
slide_loop_merges_any(g, t, row, col, movement_vector) ==
    LET dx == movement_vector[1]
        dy == movement_vector[2]
        trial_x == row + dy
        trial_y == col + dx
    IN  IF ~in_bounds(trial_x, trial_y)
        THEN g
        ELSE IF g.tiles[trial_x][trial_y] = None
        THEN slide_loop_merges_any(move(g, t, trial_x, trial_y), t,
                                   trial_x, trial_y, movement_vector)
        ELSE LET g1 == merge(g, t, g.tiles[trial_x][trial_y])
                 g2 == move(g1, t, trial_x, trial_y)
                 g3 == [g2 EXCEPT !.sum = @ + g2.heap[t].value]
             IN  slide_loop_merges_any(g3, t, trial_x, trial_y, movement_vector)

\* a slip in slide: the merging tile does not take the absorbed tile's cell
RECURSIVE slide_loop_leaves_absorbed(_, _, _, _, _)
slide_loop_leaves_absorbed(g, t, row, col, movement_vector) ==
    LET dx == movement_vector[1]
        dy == movement_vector[2]
        trial_x == row + dy
        trial_y == col + dx
    IN  IF ~in_bounds(trial_x, trial_y)
        THEN g
        ELSE IF g.tiles[trial_x][trial_y] = None
        THEN slide_loop_leaves_absorbed(move(g, t, trial_x, trial_y), t,
                                        trial_x, trial_y, movement_vector)
        ELSE IF g.heap[g.tiles[trial_x][trial_y]].value = g.heap[t].value
        THEN LET g1 == merge(g, t, g.tiles[trial_x][trial_y])
                 g3 == [g1 EXCEPT !.sum = @ + g1.heap[t].value]
             IN  slide_loop_leaves_absorbed(g3, t, trial_x, trial_y,
                                            movement_vector)
        ELSE g

\* a slip in slide: the tile stops where it merged
RECURSIVE slide_loop_stops_after_merge(_, _, _, _, _)
slide_loop_stops_after_merge(g, t, row, col, movement_vector) ==
    LET dx == movement_vector[1]
        dy == movement_vector[2]
        trial_x == row + dy
        trial_y == col + dx
    IN  IF ~in_bounds(trial_x, trial_y)
        THEN g
        ELSE IF g.tiles[trial_x][trial_y] = None
        THEN slide_loop_stops_after_merge(move(g, t, trial_x, trial_y), t,
                                          trial_x, trial_y, movement_vector)
        ELSE IF g.heap[g.tiles[trial_x][trial_y]].value = g.heap[t].value
        THEN LET g1 == merge(g, t, g.tiles[trial_x][trial_y])
                 g2 == move(g1, t, trial_x, trial_y)
             IN  [g2 EXCEPT !.sum = @ + g2.heap[t].value]
        ELSE g

RECURSIVE slide_loop(_, _, _, _, _)
slide_loop(g, t, row, col, movement_vector) ==
    LET dx == movement_vector[1]
        dy == movement_vector[2]
        trial_x == row + dy
        trial_y == col + dx
    IN  IF ~in_bounds(trial_x, trial_y)
        THEN g
        ELSE IF g.tiles[trial_x][trial_y] = None
        THEN slide_loop(move(g, t, trial_x, trial_y), t, trial_x, trial_y,
                        movement_vector)
        ELSE IF g.heap[g.tiles[trial_x][trial_y]].value = g.heap[t].value
        THEN LET g1 == merge(g, t, g.tiles[trial_x][trial_y])
                 g2 == move(g1, t, trial_x, trial_y)
                 g3 == [g2 EXCEPT !.sum = @ + g2.heap[t].value]
             IN  slide_loop(g3, t, trial_x, trial_y, movement_vector)
        ELSE g

\* a slip in slide: an updated event is emitted whether or not the tile moved
slide_always_notifies(g, t, movement_vector) ==
    LET g1 == slide_loop(g, t, g.heap[t].row, g.heap[t].col, movement_vector)
    IN  notify_all(g1, GameEvent(tile_updated, g1, t, "tile"))

slide(g, t, movement_vector) ==
    slide_loop([g EXCEPT !.slid = Append(@, [tile |-> t, at |-> Len(g.events)])],
               t, g.heap[t].row, g.heap[t].col, movement_vector)

\* ---- traversal orders of Grid.left/right/up/down ----
Asc == [i \in 1 .. GRID_SIZE |-> i - 1]
Desc == [i \in 1 .. GRID_SIZE |-> GRID_SIZE - i]

\* for row in rs: for col in cs: the cells in visiting order
Order(rs, cs) ==
    [k \in 1 .. (GRID_SIZE * GRID_SIZE) |->
        <<rs[((k - 1) \div GRID_SIZE) + 1], cs[((k - 1) % GRID_SIZE) + 1]>>]

\* the loops read the cell when they reach it: "if col: col.slide(vector)"
RECURSIVE slide_each(_, _, _)
slide_each(g, order, movement_vector) ==
    IF order = <<>>
    THEN g
    ELSE LET col == g.tiles[Head(order)[1]][Head(order)[2]]
         IN  slide_each(IF col # None THEN slide(g, col, movement_vector) ELSE g,
                        Tail(order), movement_vector)

left_of(g) == slide_each(g, Order(Asc, Asc), <<-1, 0>>)
right_of(g) == slide_each(g, Order(Asc, Desc), <<1, 0>>)
up_of(g) == slide_each(g, Order(Asc, Asc), <<0, -1>>)
down_of(g) == slide_each(g, Order(Desc, Asc), <<0, 1>>)

\* ---- Grid.set_tiles ----
\* Python lists are modelled as functions on 0 .. n-1
EmptyList == [i \in {} |-> None]
append(list, x) ==
    [i \in 0 .. Cardinality(DOMAIN list) |-> IF i \in DOMAIN list THEN list[i] ELSE x]

\* the inner loop "for col in range(self.cols)": builds row_tiles; reading
\* rep[row][col] outside rep raises IndexError
RECURSIVE set_tiles_row(_, _, _, _, _)
set_tiles_row(g, rep, row, col, row_tiles) ==
    IF col >= GRID_SIZE
    THEN [g |-> g, row_tiles |-> row_tiles]
    ELSE IF row \notin DOMAIN rep
    THEN [g |-> [g EXCEPT !.error = "IndexError"], row_tiles |-> row_tiles]
    ELSE IF col \notin DOMAIN rep[row]
    THEN [g |-> [g EXCEPT !.error = "IndexError"], row_tiles |-> row_tiles]
    ELSE IF rep[row][col] = 0
    THEN set_tiles_row(g, rep, row, col + 1, append(row_tiles, None))
    ELSE LET val == rep[row][col]
             g1 == Tile(g, row, col, val)
             tile == Len(g1.heap)
         IN  set_tiles_row(notify_all(g1, GameEvent(tile_created, g1, tile, "grid")),
                           rep, row, col + 1, append(row_tiles, tile))

\* the outer loop "for row in range(self.rows)": appends each finished row
RECURSIVE set_tiles_loop(_, _, _)
set_tiles_loop(g, rep, row) ==
    IF row >= GRID_SIZE
    THEN g
    ELSE LET r == set_tiles_row(g, rep, row, 0, EmptyList)
         IN  IF r.g.error # "none"
             THEN r.g
             ELSE set_tiles_loop([r.g EXCEPT !.tiles = append(@, r.row_tiles)],
                                 rep, row + 1)

\* a slip in set_tiles: rep[col][row] is read for cell (row, col)
set_tiles_transposed(g, rep) ==
    set_tiles_loop([g EXCEPT !.tiles = EmptyList],
                   [row \in Idx |-> [col \in Idx |-> rep[col][row]]], 0)

set_tiles_of(g, rep) == set_tiles_loop([g EXCEPT !.tiles = EmptyList], rep, 0)

\* ---- Grid.place_tile with the two random draws made explicit ----
new_value(draw) == IF draw = 4 THEN 4 ELSE 2

\* a slip in place_tile: the coordinates handed to Tile in the wrong order
place_tile_swapped(g, spot, value) ==
    LET g1 == Tile(g, spot[2], spot[1], value)
        t == Len(g1.heap)
        g2 == [g1 EXCEPT !.tiles[spot[1]][spot[2]] = t]
    IN  notify_all(g2, GameEvent(tile_created, g2, t, "grid"))

place_tile_of(g, spot, value) ==
    LET g1 == Tile(g, spot[1], spot[2], value)
        t == Len(g1.heap)
        g2 == [g1 EXCEPT !.tiles[spot[1]][spot[2]] = t]
    IN  notify_all(g2, GameEvent(tile_created, g2, t, "grid"))

\* ---- the state threaded through an operation ----
Cur == [tiles |-> tiles, heap |-> heap, sum |-> sum, view |-> view,
        events |-> <<>>, merges |-> <<>>, slid |-> <<>>, error |-> "none"]

\* what the last operation was called on and what it emitted
Done(name, arg, g) ==
    /\ budget' = budget - 1
    /\ tiles' = g.tiles
    /\ heap' = g.heap
    /\ sum' = g.sum
    /\ view' = g.view
    /\ last' = [op |-> name, arg |-> arg, tiles |-> tiles, heap |-> heap,
                sum |-> sum, view |-> view, events |-> g.events,
                merges |-> g.merges, slid |-> g.slid, error |-> g.error]

NoArg == <<>>

\* ---- specification Spec: operations on a new Grid ----
NewGrid == [tiles |-> EmptyTiles, heap |-> <<>>, sum |-> 0, view |-> <<>>,
            events |-> <<>>, merges |-> <<>>, slid |-> <<>>, error |-> "none"]

NoLast == [op |-> "init", arg |-> NoArg, tiles |-> EmptyTiles, heap |-> <<>>,
           sum |-> 0, view |-> <<>>, events |-> <<>>, merges |-> <<>>,
           slid |-> <<>>, error |-> "none"]

Init ==
    /\ tiles = EmptyTiles
    /\ heap = <<>>
    /\ sum = 0
    /\ view = <<>>
    /\ pc = "api"
    /\ budget = MaxOps
    /\ last = NoLast

\* spot = self.find_empty(); "assert spot is not None" raises before anything
\* is changed when find_empty had no candidate
place_tile_call ==
    IF find_empty = {}
    THEN Done("place_tile", NoArg, [Cur EXCEPT !.error = "AssertionError"])
    ELSE \E spot \in find_empty, value \in {new_value(draw) : draw \in 1 .. 10} :
            Done("place_tile", spot, place_tile_of(Cur, spot, value))

place_tile ==
    /\ budget > 0
    /\ pc = "api"
    /\ place_tile_call
    /\ pc' = pc

left ==
    /\ budget > 0
    /\ pc = "api"
    /\ Done("left", NoArg, left_of(Cur))
    /\ pc' = pc

right ==
    /\ budget > 0
    /\ pc = "api"
    /\ Done("right", NoArg, right_of(Cur))
    /\ pc' = pc

up ==
    /\ budget > 0
    /\ pc = "api"
    /\ Done("up", NoArg, up_of(Cur))
    /\ pc' = pc

down ==
    /\ budget > 0
    /\ pc = "api"
    /\ Done("down", NoArg, down_of(Cur))
    /\ pc' = pc


Next == place_tile \/ left \/ right \/ up \/ down

Spec == Init /\ [][Next]_vars

\* ---- specification SpecLoad: a Grid restored from a saved matrix ----
\* the saved matrices: entries are empty or a value place_tile creates; the
\* rows (or, transposed, the columns) alternate between an arbitrary line a
\* and a line b that is empty or full
LoadVals == {0, 2, 4}
Lines == [Idx -> LoadVals]
BlockLines == [Idx -> {0}] \cup [Idx -> LoadVals \ {0}]
Mat(a, b, transposed) ==
    [row \in Idx |-> [col \in Idx |->
        LET i == IF transposed THEN col ELSE row
            k == IF transposed THEN row ELSE col
        IN  IF i % 2 = 0 THEN a[k] ELSE b[k]]]
Matrices == {Mat(a, b, tr) : a \in Lines, b \in BlockLines, tr \in BOOLEAN}

InitLoad ==
    \E rep \in Matrices :
        LET g == set_tiles_of(NewGrid, rep)
        IN  /\ tiles = g.tiles
            /\ heap = g.heap
            /\ sum = g.sum
            /\ view = g.view
            /\ pc = "api"
            /\ budget = MaxLoadOps
            /\ last = [op |-> "set_tiles", arg |-> rep, tiles |-> EmptyTiles,
                       heap |-> <<>>, sum |-> 0, view |-> <<>>,
                       events |-> g.events, merges |-> g.merges,
                       slid |-> g.slid, error |-> g.error]

\* save and restore: set_tiles(as_list())
reload ==
    /\ budget > 0
    /\ pc = "api"
    /\ Done("set_tiles", as_list, set_tiles_of(Cur, as_list))
    /\ pc' = pc

NextLoad == reload \/ left \/ right \/ up \/ down

SpecLoad == InitLoad /\ [][NextLoad]_vars

\* ---- specification SpecMalformed: restoring a damaged save ----
\* the matrix written by as_list() with its last row or last column lost, a
\* row or a column added, or one entry overwritten by a value that is no
\* tile value
BadVals == {3, -2}
init(list) == [i \in DOMAIN list \ {Cardinality(DOMAIN list) - 1} |-> list[i]]
Damaged(m) ==
    {init(m), [i \in DOMAIN m |-> init(m[i])], append(m, [col \in Idx |-> 0]),
     [i \in DOMAIN m |-> append(m[i], 0)]}
    \cup {[m EXCEPT ![i][j] = v] : i \in DOMAIN m, j \in Idx, v \in BadVals}

set_tiles_damaged ==
    /\ budget > 0
    /\ pc = "api"
    /\ \E rep \in Damaged(as_list) : Done("set_tiles", rep, set_tiles_of(Cur, rep))
    /\ pc' = pc

NextMalformed == set_tiles_damaged

SpecMalformed == InitLoad /\ [][NextMalformed]_vars

\* ---- specification SpecPlace: place_tile on boards that are full or nearly ----
\* the restored boards with at most two empty cells
InitPlace == InitLoad /\ Cardinality(candidates_of(tiles)) <= 2

NextPlace == place_tile

SpecPlace == InitPlace /\ [][NextPlace]_vars

\* ---- specification SpecPlay: play continued on a board with pairs ----
\* the restored boards whose rows 0 and 2 (or columns 0 and 2) are the same
\* full line and whose other rows (columns) are empty
PlayBoards ==
    {Mat(a, [k \in Idx |-> 0], tr) : a \in [Idx -> LoadVals \ {0}], tr \in BOOLEAN}

InitPlay ==
    \E rep \in PlayBoards :
        LET g == set_tiles_of(NewGrid, rep)
        IN  /\ tiles = g.tiles
            /\ heap = g.heap
            /\ sum = g.sum
            /\ view = g.view
            /\ pc = "api"
            /\ budget = MaxPlayOps
            /\ last = [op |-> "set_tiles", arg |-> rep, tiles |-> EmptyTiles,
                       heap |-> <<>>, sum |-> 0, view |-> <<>>,
                       events |-> g.events, merges |-> g.merges,
                       slid |-> g.slid, error |-> g.error]

SpecPlay == InitPlay /\ [][Next]_vars

\* ---- specification SpecMain: the driver loop of game_manager.main ----
\* pc: "start" (before the first place_tile), "test" (the while test),
\* "place" and "cmd" (the loop body), "done" (after the loop), "crashed" (an
\* exception left main).
LEFT == "Left"
RIGHT == "Right"
UP == "Up"
DOWN == "Down"
UNMAPPED == "Unmapped"
Commands == {LEFT, RIGHT, UP, DOWN, UNMAPPED}

\* main starts on a new Grid.  The loop test is also entered on every board
\* of 2s and 4s with score 0 (the boards the loop reaches through unmapped
\* commands, which place a tile per iteration and move nothing); of these
\* the full boards and the full boards with one cell of the diagonal emptied
\* are initial states.
FullMatrices == {m \in Matrices : \A i \in Idx : \A j \in Idx : m[i][j] # 0}
MainBoards == FullMatrices \cup {[m EXCEPT ![i][i] = 0] : m \in FullMatrices, i \in Idx}

InitMain ==
    \/ /\ tiles = EmptyTiles
       /\ heap = <<>>
       /\ sum = 0
       /\ view = <<>>
       /\ pc = "start"
       /\ budget = MaxMainSteps
       /\ last = NoLast
    \/ \E rep \in MainBoards :
          LET g == set_tiles_of(NewGrid, rep)
          IN  /\ tiles = g.tiles
              /\ heap = g.heap
              /\ sum = g.sum
              /\ view = g.view
              /\ pc = "test"
              /\ budget = MaxMainSteps
              /\ last = NoLast

\* grid.place_tile() before the loop
main_first_place ==
    /\ budget > 0
    /\ pc = "start"
    /\ place_tile_call
    /\ pc' = IF find_empty = {} THEN "crashed" ELSE "test"

\* a slip in main: the loop body is entered whatever find_empty returns
main_test_always_enters ==
    /\ budget > 0
    /\ pc = "test"
    /\ pc' = "place"
    /\ budget' = budget - 1
    /\ UNCHANGED <<tiles, heap, sum, view, last>>

\* while grid.find_empty(): a (row, col) pair is true, None is false
main_test ==
    /\ budget > 0
    /\ pc = "test"
    /\ pc' = IF find_empty # {} THEN "place" ELSE "done"
    /\ budget' = budget - 1
    /\ UNCHANGED <<tiles, heap, sum, view, last>>

\* grid.place_tile() in the loop body
main_place ==
    /\ budget > 0
    /\ pc = "place"
    /\ place_tile_call
    /\ pc' = IF find_empty = {} THEN "crashed" ELSE "cmd"

\* cmd = commands.next() and the if/elif chain on it
main_cmd ==
    /\ budget > 0
    /\ pc = "cmd"
    /\ \E cmd \in Commands :
          CASE cmd = LEFT -> Done("left", NoArg, left_of(Cur))
            [] cmd = RIGHT -> Done("right", NoArg, right_of(Cur))
            [] cmd = UP -> Done("up", NoArg, up_of(Cur))
            [] cmd = DOWN -> Done("down", NoArg, down_of(Cur))
            [] OTHER -> Done("unmapped", NoArg, Cur)
    /\ pc' = "test"

NextMain == main_first_place \/ main_test \/ main_place \/ main_cmd

SpecMain == InitMain /\ [][NextMain]_vars

\* ======================= properties =======================
Moves == {"left", "right", "up", "down"}
IsMove == last.op \in Moves

\* the board the last operation was called on, as numbers
PreList == as_list_of(last.tiles, last.heap)

At(m, p) == m[p[1]][p[2]]

RECURSIVE SumOver(_, _)
SumOver(m, order) ==
    IF order = <<>> THEN 0 ELSE At(m, Head(order)) + SumOver(m, Tail(order))
Total(m) == SumOver(m, Order(Asc, Asc))

Occupied(m) == {p \in Pos : At(m, p) # 0}

\* -- the naive collapse-and-merge reference, line by line --
\* line i of the board read from the destination edge of direction d
LineOf(m, d, i) ==
    [k \in 1 .. GRID_SIZE |->
        CASE d = "left" -> m[i][k - 1]
          [] d = "right" -> m[i][GRID_SIZE - k]
          [] d = "up" -> m[k - 1][i]
          [] d = "down" -> m[GRID_SIZE - k][i]]

NonZero(v) == v # 0

RECURSIVE Collapse(_)
Collapse(s) ==
    IF Len(s) <= 1 THEN s
    ELSE IF s[1] = s[2]
         THEN <<s[1] + s[2]>> \o Collapse(SubSeq(s, 3, Len(s)))
         ELSE <<s[1]>> \o Collapse(Tail(s))

Naive(line) ==
    LET packed == Collapse(SelectSeq(line, NonZero))
    IN  [k \in 1 .. GRID_SIZE |-> IF k <= Len(packed) THEN packed[k] ELSE 0]

Reference(m, d) ==
    [row \in Idx |-> [col \in Idx |->
        CASE d = "left" -> Naive(LineOf(m, d, row))[col + 1]
          [] d = "right" -> Naive(LineOf(m, d, row))[GRID_SIZE - col]
          [] d = "up" -> Naive(LineOf(m, d, col))[row + 1]
          [] d = "down" -> Naive(LineOf(m, d, col))[GRID_SIZE - row]]]

\* C1: after a move the board equals the naive collapse-and-merge reference
\* applied to every line of the board before the move (each resulting tile
\* merging at most once).
C1_MoveEqualsNaive == IsMove => as_list = Reference(PreList, last.op)

\* the merges of the last operation a tile took part in, as absorber or absorbed
MergesOf(t) ==
    {k \in 1 .. Len(last.merges) :
        last.merges[k].into = t \/ last.merges[k].absorbed = t}

\* C2: during one move every tile takes part in at most one merge (a tile
\* that has merged stops and is not merged again in the same move).
C2_AtMostOneMerge ==
    IsMove => \A t \in 1 .. Len(heap) : Cardinality(MergesOf(t)) <= 1

\* C3: a move leaves the sum of all tile values on the grid unchanged.
C3_SumConserved == IsMove => Total(as_list) = Total(PreList)

C3_Witness ==
    /\ IsMove
    /\ Len(last.merges) >= 2
    /\ Cardinality(Occupied(as_list)) < Cardinality(Occupied(PreList))

RECURSIVE MergedValue(_)
MergedValue(ms) ==
    IF ms = <<>> THEN 0 ELSE 2 * Head(ms).value + MergedValue(Tail(ms))

C5_ScoreIsTotal == score = Total(as_list)

\* C6: place_tile fills exactly one previously empty cell with a new tile of
\* value 2 or 4 carrying that cell's coordinates, leaves every other cell,
\* every other tile and the score unchanged and emits exactly one created
\* event, for that tile, to the grid's listeners.
C6_PlaceTileFrame ==
    (last.op = "place_tile" /\ candidates_of(last.tiles) # {}) =>
        \E p \in Pos :
            /\ At(last.tiles, p) = None
            /\ At(tiles, p) # None
            /\ At(tiles, p) \notin DOMAIN last.heap
            /\ heap[At(tiles, p)].value \in {2, 4}
            /\ heap[At(tiles, p)].row = p[1]
            /\ heap[At(tiles, p)].col = p[2]
            /\ \A q \in Pos : q # p => At(tiles, q) = At(last.tiles, q)
            /\ \A t \in DOMAIN last.heap : heap[t] = last.heap[t]
            /\ Len(heap) = Len(last.heap) + 1
            /\ score = last.sum
            /\ last.events = <<[kind |-> tile_created, tile |-> At(tiles, p),
                                row |-> p[1], col |-> p[2],
                                value |-> heap[At(tiles, p)].value, src |-> "grid",
                                cell |-> At(tiles, p)]>>

C6_Witness ==
    /\ last.op = "place_tile"
    /\ Cardinality(Occupied(PreList)) >= 1
    /\ Cardinality(Occupied(as_list)) = Cardinality(Occupied(PreList)) + 1
    /\ \E p \in Pos : At(last.tiles, p) = None /\ At(as_list, p) = 4

\* C7: between operations every tile stored in cell (r, c) has row = r and
\* col = c inside the grid, and no tile object is stored in two cells.
C7_TilePositions ==
    \A p \in Pos :
        At(tiles, p) # None =>
            /\ At(tiles, p) \in DOMAIN heap
            /\ heap[At(tiles, p)].row = p[1]
            /\ heap[At(tiles, p)].col = p[2]
            /\ in_bounds(heap[At(tiles, p)].row, heap[At(tiles, p)].col)
            /\ \A q \in Pos : q # p => At(tiles, q) # At(tiles, p)

C7_Witness ==
    /\ IsMove
    /\ Cardinality(Occupied(as_list)) >= 2
    /\ \E p \in Pos : At(tiles, p) # None /\ At(last.tiles, p) # At(tiles, p)

\* the step of direction d from cell p: (row + dy, col + dx)
Vec(d) ==
    CASE d = "left" -> <<-1, 0>>
      [] d = "right" -> <<1, 0>>
      [] d = "up" -> <<0, -1>>
      [] d = "down" -> <<0, 1>>

NextCell(p, d) == <<p[1] + Vec(d)[2], p[2] + Vec(d)[1]>>

\* no tile of board m has, in direction d, a next cell that is empty or equal
Blocked(m, d) ==
    \A p \in Occupied(m) :
        \/ NextCell(p, d) \notin Pos
        \/ /\ At(m, NextCell(p, d)) # 0
           /\ At(m, NextCell(p, d)) # At(m, p)

FullNoPairs(m) == Occupied(m) = Pos /\ \A d \in Moves : Blocked(m, d)

Unchanged(g) ==
    /\ g.tiles = tiles
    /\ g.heap = heap
    /\ g.sum = sum
    /\ g.events = <<>>

\* C8: a move in a direction in which no tile has an empty or equal-valued
\* next cell changes no cell, no tile and not the score and emits no event; on
\* a full grid without an equal-valued adjacent pair all four moves are
\* no-ops and find_empty has no candidate.
C8_BlockedMoveNoOp ==
    /\ (IsMove /\ Blocked(PreList, last.op)) =>
          /\ tiles = last.tiles
          /\ heap = last.heap
          /\ sum = last.sum
          /\ last.events = <<>>
    /\ FullNoPairs(as_list) =>
          /\ Unchanged(left_of(Cur))
          /\ Unchanged(right_of(Cur))
          /\ Unchanged(up_of(Cur))
          /\ Unchanged(down_of(Cur))
          /\ find_empty = {}

C8_Witness ==
    /\ IsMove
    /\ FullNoPairs(PreList)
    /\ tiles = last.tiles
    /\ last.events = <<>>

RECURSIVE IsPowerOfTwo(_)
IsPowerOfTwo(v) == v = 1 \/ (v > 1 /\ v % 2 = 0 /\ IsPowerOfTwo(v \div 2))

\* C9: every tile on the grid has a value that is a power of two and >= 2.
C9_PowersOfTwo ==
    \A p \in Pos :
        At(tiles, p) # None => heap[At(tiles, p)].value >= 2 /\ IsPowerOfTwo(heap[At(tiles, p)].value)

C9_Witness ==
    /\ IsMove
    /\ last.merges # <<>>
    /\ \E p \in Pos : At(as_list, p) = 8

\* the created events set_tiles must emit for matrix m: one per non-zero
\* entry, in row-major order
RECURSIVE CreatedFor(_, _)
CreatedFor(m, order) ==
    IF order = <<>> THEN <<>>
    ELSE IF At(m, Head(order)) = 0 THEN CreatedFor(m, Tail(order))
    ELSE <<[kind |-> tile_created, row |-> Head(order)[1],
            col |-> Head(order)[2], value |-> At(m, Head(order))]>>
         \o CreatedFor(m, Tail(order))

Shown(ev) == [kind |-> ev.kind, row |-> ev.row, col |-> ev.col, value |-> ev.value]

\* C10: after set_tiles(m), as_list() returns m, every tile's row/col are its
\* cell's coordinates, one created event was emitted per non-zero entry and
\* none for a zero entry; set_tiles(as_list()) leaves as_list() unchanged.
C10_RoundTrip ==
    /\ last.op = "set_tiles" =>
          /\ as_list = last.arg
          /\ \A p \in Pos : At(tiles, p) # None =>
                heap[At(tiles, p)].row = p[1] /\ heap[At(tiles, p)].col = p[2]
          /\ [k \in 1 .. Len(last.events) |-> Shown(last.events[k])]
                = CreatedFor(last.arg, Order(Asc, Asc))
          /\ \A k \in 1 .. Len(last.events) :
                /\ last.events[k].src = "grid"
                /\ tiles[last.events[k].row][last.events[k].col] = last.events[k].tile
                /\ \A j \in 1 .. Len(last.events) :
                      j # k => last.events[j].tile # last.events[k].tile
    /\ LET g == set_tiles_of(Cur, as_list)
       IN  as_list_of(g.tiles, g.heap) = as_list

C10_Witness ==
    /\ last.op = "set_tiles"
    /\ last.heap # <<>>
    /\ last.arg = PreList
    /\ Occupied(as_list) # {}
    /\ Occupied(as_list) # Pos
    /\ \E p \in Pos : as_list[p[1]][p[2]] # as_list[p[2]][p[1]]

\* a matrix set_tiles must not accept: wrong number of rows or columns, or an
\* entry that is negative or neither 0 nor a power of two
Malformed(m) ==
    \/ DOMAIN m # Idx
    \/ \E i \in DOMAIN m : DOMAIN m[i] # Idx
    \/ \E i \in DOMAIN m : \E j \in DOMAIN m[i] :
          m[i][j] < 0 \/ (m[i][j] > 0 /\ ~IsPowerOfTwo(m[i][j]))

\* C11: set_tiles given a malformed matrix raises an error and leaves the
\* grid's cells as they were before the call.
C11_MalformedRejected ==
    (last.op = "set_tiles" /\ Malformed(last.arg)) =>
        /\ last.error # "none"
        /\ tiles = last.tiles

\* C12: place_tile on a grid without an empty cell fails with an assertion
\* failure before any mutation: no cell, tile, score or view changes and no
\* event is emitted.
C12_FullGridAssertion ==
    (last.op = "place_tile" /\ candidates_of(last.tiles) = {}) =>
        /\ last.error = "AssertionError"
        /\ tiles = last.tiles
        /\ heap = last.heap
        /\ sum = last.sum
        /\ view = last.view
        /\ last.events = <<>>

C12_Witness ==
    /\ last.op = "place_tile"
    /\ candidates_of(last.tiles) = {}
    /\ last.error = "AssertionError"

\* C13: in the driver loop place_tile is only called on a grid with an empty
\* cell, so its assertion never fails, and the loop is left exactly when the
\* grid has no empty cell at the loop test, whether or not a merge is still
\* possible.
C13_DriverNeverPlacesOnFull ==
    /\ last.op = "place_tile" =>
          last.error = "none" /\ candidates_of(last.tiles) # {}
    /\ pc # "crashed"
    /\ pc \in {"place", "cmd"} => last.error = "none"
    /\ pc = "place" => find_empty # {}
    /\ pc = "done" => find_empty = {}

C13_Witness ==
    /\ pc = "done"
    /\ last.op \in Moves
    /\ find_empty = {}
    /\ \E d \in Moves : ~Blocked(as_list, d)

\* the tiles whose removed event has been delivered: their depiction is undrawn
Absorbed(vw) == {vw[v].tile : v \in {x \in DOMAIN vw : ~vw[x].drawn}}

\* the events of the last operation that concern tile t
EventsOf(t) == {i \in DOMAIN last.events : last.events[i].tile = t}

\* C14: a tile absorbed in a merge is in no grid cell afterwards, is not slid
\* again, neither later in the same move nor by a later operation, and emits
\* no event after its removed event.
C14_AbsorbedTileGone ==
    /\ \A t \in Absorbed(view) : \A p \in Pos : At(tiles, p) # t
    /\ \A t \in Absorbed(last.view) :
          /\ EventsOf(t) = {}
          /\ \A k \in DOMAIN last.slid : last.slid[k].tile # t
    /\ \A i \in DOMAIN last.events :
          last.events[i].kind = tile_removed =>
              /\ \A j \in EventsOf(last.events[i].tile) : j <= i
              /\ \A k \in DOMAIN last.slid :
                    last.slid[k].tile = last.events[i].tile => last.slid[k].at < i

\* a move with a merge followed by further slides and events, on a grid that
\* already lost a tile to a merge of an earlier move
C14_Witness ==
    /\ IsMove
    /\ Absorbed(last.view) # {}
    /\ \E i \in DOMAIN last.events :
          /\ last.events[i].kind = tile_removed
          /\ \E k \in DOMAIN last.slid : last.slid[k].at > i
          /\ \E j \in DOMAIN last.events :
                j > i + 2 /\ last.events[j].kind = tile_updated

\* the positions of the removed events among the last operation's events
RemovedAt == {i \in DOMAIN last.events : last.events[i].kind = tile_removed}

\* C15: every merge emits one removed event for the absorbed tile and then the
\* updated events of the absorbing tile; at the last of them that tile has
\* the summed value and is stored in the absorbed tile's former cell, and at
\* every updated event the cell at the event tile's row and col holds the tile.
C15_MergeEventOrder ==
    IsMove =>
        /\ Cardinality(RemovedAt) = Len(last.merges)
        /\ \A k \in DOMAIN last.merges :
              Cardinality({i \in RemovedAt :
                              last.events[i].tile = last.merges[k].absorbed}) = 1
        /\ \A i \in RemovedAt :
              LET e == last.events[i]
              IN  /\ i + 2 <= Len(last.events)
                  /\ \E k \in DOMAIN last.merges :
                        /\ last.merges[k].absorbed = e.tile
                        /\ \A j \in {i + 1, i + 2} :
                              /\ last.events[j].kind = tile_updated
                              /\ last.events[j].tile = last.merges[k].into
                              /\ last.events[j].value = e.value + last.merges[k].value
                        /\ last.events[i + 2].row = e.row
                        /\ last.events[i + 2].col = e.col
                        /\ last.events[i + 2].cell = last.merges[k].into
        /\ \A j \in DOMAIN last.events :
              last.events[j].kind = tile_updated =>
                  last.events[j].cell = last.events[j].tile

\* a move with two merges, one of them by a tile that had to slide first
C15_Witness ==
    /\ IsMove
    /\ Len(last.merges) >= 2
    /\ \E i \in RemovedAt :
          /\ i > 1
          /\ last.events[i - 1].kind = tile_updated
          /\ last.events[i - 1].tile = last.events[i + 1].tile

\* the records the listener holds: the depictions that were not undrawn
Records == {v \in DOMAIN view : view[v].drawn}

\* C16: after every place_tile, left, right, up or down on a new Grid, a
\* listener following the view's protocol holds exactly one record per
\* occupied cell, with the cell's coordinates and value, and no record for an
\* empty cell: every record lies on the cell of its tile and has its value, no
\* tile has two records, and every occupied cell has a record at its place.
C16_ViewMatchesGrid ==
    /\ \A v \in DOMAIN view :
          view[v].drawn =>
              /\ view[v].row \in Idx
              /\ view[v].col \in Idx
              /\ tiles[view[v].row][view[v].col] = view[v].tile
              /\ heap[view[v].tile].value = view[v].value
              /\ \A w \in DOMAIN view :
                    (view[w].drawn /\ view[w].tile = view[v].tile) => w = v
    /\ \A p \in Pos :
          At(tiles, p) # None =>
              \E v \in DOMAIN view :
                  /\ view[v].drawn
                  /\ view[v].tile = At(tiles, p)
                  /\ view[v].row = p[1]
                  /\ view[v].col = p[2]

\* a move in which a tile slid and absorbed another, seen by the listener
C16_Witness ==
    /\ IsMove
    /\ last.merges # <<>>
    /\ Absorbed(view) # {}
    /\ \E v \in Records :
          /\ v \in DOMAIN last.view
          /\ view[v].value = 2 * last.view[v].value
          /\ view[v].row = last.view[v].row
          /\ view[v].col \notin {last.view[v].col - 1, last.view[v].col,
                                 last.view[v].col + 1}

\* the tiles announced as created and not announced as removed
Announced == {view[v].tile : v \in Records}

\* the tiles stored in the grid's cells
Stored == {cell_of(Cur, p[1], p[2]) : p \in Pos} \ {None, NoCell}

\* C17: after set_tiles(m) on any grid, the tiles with a created event and no
\* removed event are exactly the tiles stored in the cells: the tiles the load
\* discards are announced as removed.
C17_LoadKeepsObserversConsistent ==
    last.op = "set_tiles" => Announced = Stored

\* Grid.left/right/up/down selected by name
MoveOf(d, g) ==
    CASE d = "left" -> left_of(g)
      [] d = "right" -> right_of(g)
      [] d = "up" -> up_of(g)
      [] d = "down" -> down_of(g)

\* C18: after a move in direction d no tile has, in direction d, a next cell
\* that is empty or holds an equal value, and the same move called again
\* changes no cell and no tile, leaves the score and emits no event.
C18_MoveIdempotent ==
    IsMove =>
        /\ Blocked(as_list, last.op)
        /\ Unchanged(MoveOf(last.op, Cur))

\* a move in which a tile merged twice, and which called again does nothing
C18_Witness ==
    /\ IsMove
    /\ \E k \in DOMAIN last.merges : \E n \in DOMAIN last.merges :
          k # n /\ last.merges[k].into = last.merges[n].into
    /\ Blocked(as_list, last.op)
    /\ Unchanged(MoveOf(last.op, Cur))

\* C19: no listener is delivered an event kind it raises "Unexpected event"
\* on: the listeners of the Grid are delivered created events only, updated
\* and removed events go to the listeners registered on the tile concerned.
C19_NoUnexpectedEvent ==
    /\ last.error # "Unexpected event"
    /\ \A i \in DOMAIN last.events :
          /\ last.events[i].src = "grid" => last.events[i].kind = tile_created
          /\ last.events[i].kind \in {tile_updated, tile_removed} =>
                last.events[i].src = "tile"
    /\ \A t \in DOMAIN heap : \A l \in DOMAIN heap[t].listeners :
          view[heap[t].listeners[l]].tile = t

\* a move that removes a loaded tile and slides the tile place_tile created
C19_Witness ==
    /\ IsMove
    /\ last.error = "none"
    /\ Len(view) = Len(heap)
    /\ \E i \in DOMAIN last.events : last.events[i].kind = tile_removed
    /\ \E i \in DOMAIN last.events :
          /\ last.events[i].kind = tile_updated
          /\ last.events[i].tile = Len(heap)
          /\ heap[Len(heap)].listeners # <<>>

====
